---------------------------- MODULE Spec2Model ----------------------------
(***************************************************************************)
(* eslite: persistent JavaScript objects stored in one SQLite table.       *)
(*                                                                         *)
(* The model follows src/src/proxy.ts (the proxy handlers), the encoding   *)
(* module it imports (src/unnamed/part_000) and src/src/index.ts           *)
(* (Database.entries).  Byte strings are sequences of 0..255, JavaScript   *)
(* strings are sequences of UTF-16 code units, and the table is the set of *)
(* its (path, value) rows.                                                 *)
(***************************************************************************)
EXTENDS Integers, Sequences, FiniteSets, TLC

(***************************************************************************)
(* Generic helpers on sequences and bytes.                                  *)
(***************************************************************************)
Range(s) == {s[i] : i \in DOMAIN s}

Last(s) == s[Len(s)]

Front(s) == SubSeq(s, 1, Len(s) - 1)

\* memcmp order followed by length: the order SQLite gives two BLOBs
RECURSIVE BytesLess(_, _)
BytesLess(x, y) ==
    IF y = <<>> THEN FALSE
    ELSE IF x = <<>> THEN TRUE
    ELSE IF x[1] # y[1] THEN x[1] < y[1]
    ELSE BytesLess(Tail(x), Tail(y))

BytesLeq(x, y) == x = y \/ BytesLess(x, y)

IsPrefixOf(p, s) == Len(p) <= Len(s) /\ SubSeq(s, 1, Len(p)) = p

RECURSIVE Pow2(_)
Pow2(n) == IF n = 0 THEN 1 ELSE 2 * Pow2(n - 1)

\* the w-bit big-endian binary digits of n
Bits(n, w) == [i \in 1 .. w |-> (n \div Pow2(w - i)) % 2]

RECURSIVE BitsValueTo(_, _)
BitsValueTo(bs, i) == IF i = 0 THEN 0 ELSE 2 * BitsValueTo(bs, i - 1) + bs[i]

\* the number whose big-endian binary digits are bs
BitsValue(bs) == BitsValueTo(bs, Len(bs))

\* the binary digits of n > 0 without leading zeros
RECURSIVE Bin(_)
Bin(n) == IF n <= 1 THEN <<n>> ELSE Append(Bin(n \div 2), n % 2)

Zeros(n) == [i \in 1 .. n |-> 0]

RECURSIVE StripTrailingZeros(_)
StripTrailingZeros(bs) ==
    IF bs = <<>> \/ Last(bs) # 0 THEN bs ELSE StripTrailingZeros(Front(bs))

BitsToBytes(bs) ==
    [i \in 1 .. (Len(bs) \div 8) |-> BitsValue(SubSeq(bs, 8 * i - 7, 8 * i))]

BytesToBits(bytes) ==
    [i \in 1 .. (8 * Len(bytes)) |-> Bits(bytes[(i + 7) \div 8], 8)[((i - 1) % 8) + 1]]

(***************************************************************************)
(* Tags of the encoding module.                                             *)
(***************************************************************************)
PATH_TAG_NUMBER == 0
PATH_TAG_STRING == 1

TAG_NULL == 0
TAG_TRUE == 1
TAG_FALSE == 2
TAG_NUMBER == 3
TAG_STRING == 4
TAG_BIGINT == 5
TAG_DATE == 6
TAG_REGEXP == 7

\* COMPLEX_TAGS: RECORD is 0xff - 1, ARRAY is 0xff - 2
COMPLEX_TAG_RECORD == 254
COMPLEX_TAG_ARRAY == 253

\* OBJECT_TAGS of the earlier table module: RECORD is 0xff - 0, ARRAY 0xff - 1
OBJECT_TAG_RECORD == 255
OBJECT_TAG_ARRAY == 254

\* the first code unit encodeString rejects, also the path string terminator
TERMINATOR == 65534

\* ZERO_INCREMENT: the upper bound of the range of the empty prefix
ZERO_INCREMENT == <<255>>

\* setUint32(0xffff_ffff): the upper bound of the index range of an array
UINT32_MAX_BYTES == <<255, 255, 255, 255>>

(***************************************************************************)
(* Strings.                                                                 *)
(***************************************************************************)
\* encodeString throws RangeError("Invalid UTF-16 code unit") on such a unit
ValidString(s) == \A i \in DOMAIN s : s[i] < TERMINATOR

RECURSIVE encodeString(_)
encodeString(s) ==
    IF s = <<>> THEN <<>>
    ELSE <<s[1] \div 256, s[1] % 256>> \o encodeString(Tail(s))

\* the code units from the first byte of `bytes` up to a unit >= 0xfffe or
\* to the end of the buffer
RECURSIVE decodeString(_)
decodeString(bytes) ==
    IF Len(bytes) < 2 THEN <<>>
    ELSE LET code == bytes[1] * 256 + bytes[2]
         IN  IF code >= TERMINATOR THEN <<>>
             ELSE <<code>> \o decodeString(SubSeq(bytes, 3, Len(bytes)))

(***************************************************************************)
(* Paths.  A segment is [n |-> index, s |-> <<>>, num |-> TRUE] or          *)
(* [n |-> 0, s |-> code units, num |-> FALSE].                              *)
(***************************************************************************)
NumSeg(n) == [num |-> TRUE, n |-> n, s |-> <<>>]

StrSeg(s) == [num |-> FALSE, n |-> 0, s |-> s]

\* a 32-bit number written least significant byte first
encodeUint32_LittleEndian(n) ==
    <<n % 256, (n \div 256) % 256, (n \div 65536) % 256, n \div 16777216>>

encodeUint32(n) ==
    <<n \div 16777216, (n \div 65536) % 256, (n \div 256) % 256, n % 256>>

decodeUint32(b) == ((b[1] * 256 + b[2]) * 256 + b[3]) * 256 + b[4]

ValidPath(path) == \A i \in DOMAIN path : path[i].num \/ ValidString(path[i].s)

\* string segments written without the 0xfffe that ends them
RECURSIVE encodePath_NoTerminator(_)
encodePath_NoTerminator(path) ==
    IF path = <<>> THEN <<>>
    ELSE LET segment == path[1]
         IN  (IF segment.num
              THEN <<PATH_TAG_NUMBER>> \o encodeUint32(segment.n)
              ELSE <<PATH_TAG_STRING>> \o encodeString(segment.s))
             \o encodePath_NoTerminator(Tail(path))

RECURSIVE encodePath(_)
encodePath(path) ==
    IF path = <<>> THEN <<>>
    ELSE LET segment == path[1]
         IN  (IF segment.num
              THEN <<PATH_TAG_NUMBER>> \o encodeUint32(segment.n)
              ELSE <<PATH_TAG_STRING>> \o encodeString(segment.s)
                       \o <<TERMINATOR \div 256, TERMINATOR % 256>>)
             \o encodePath(Tail(path))

RECURSIVE decodePath(_)
decodePath(from) ==
    IF from = <<>> THEN <<>>
    ELSE IF from[1] = PATH_TAG_NUMBER
    THEN <<NumSeg(decodeUint32(SubSeq(from, 2, 5)))>>
             \o decodePath(SubSeq(from, 6, Len(from)))
    ELSE LET segment == decodeString(Tail(from))
         IN  <<StrSeg(segment)>>
                 \o decodePath(SubSeq(from, 1 + (1 + Len(segment) * 2 + 2), Len(from)))


\* copy[copy.length - 1] += 1 on a Uint8Array: the sum is stored modulo 256
increment(prefix) ==
    IF prefix = <<>> THEN ZERO_INCREMENT
    ELSE [prefix EXCEPT ![Len(prefix)] = (@ + 1) % 256]

(***************************************************************************)
(* key(prop): Number(prop) decides between an index and a name.  Number of  *)
(* the empty string is 0, of a string of decimal digits its value, and of   *)
(* the other property names of this model NaN.  The integers of the model   *)
(* are below 2^31, so a property name has at most nine digits and an index *)
(* is always below 0xffff_ffff.                                             *)
(***************************************************************************)
IsDigit(c) == c >= 48 /\ c <= 57

RECURSIVE DecimalValue(_)
DecimalValue(s) ==
    IF s = <<>> THEN 0 ELSE 10 * DecimalValue(Front(s)) + (Last(s) - 48)

\* [nan |-> TRUE] or [nan |-> FALSE, n |-> the number]
StringToNumber(s) ==
    IF Len(s) <= 9 /\ \A i \in DOMAIN s : IsDigit(s[i])
    THEN [nan |-> FALSE, n |-> DecimalValue(s)]
    ELSE [nan |-> TRUE, n |-> 0]

key(prop) ==
    LET index == StringToNumber(prop)
    IN  IF ~index.nan /\ index.n >= 0 THEN NumSeg(index.n) ELSE StrSeg(prop)

\* String(key): the property name a segment is listed under
RECURSIVE DecimalDigits(_)
DecimalDigits(n) ==
    IF n < 10 THEN <<48 + n>> ELSE Append(DecimalDigits(n \div 10), 48 + (n % 10))

SegmentName(seg) == IF seg.num THEN DecimalDigits(seg.n) ELSE seg.s

(***************************************************************************)
(* JavaScript values.  Every value is [t, a, b, p]: t the type, a and b     *)
(* sequences of integers, p the prefix of a handle (empty otherwise).       *)
(*   number  a = <<class, sign, m, x>>: class 0 is the finite number        *)
(*           (-1)^sign * m * 2^x with m odd (or m = 0 and x = 0), class 1   *)
(*           an infinity, class 2 NaN                                       *)
(*   string  a = the code units                                             *)
(*   bigint  a = <<the integer>>                                            *)
(*   date    a = the time value, as a number                                *)
(*   regexp  a = the source, b = the flags                                  *)
(*   object  a = <<id>>, the identity of an object of SourceHeap            *)
(***************************************************************************)
Val(t, a, b) == [t |-> t, a |-> a, b |-> b, p |-> <<>>]

Null == Val("null", <<>>, <<>>)

Undefined == Val("undefined", <<>>, <<>>)

Bool(x) == Val("boolean", <<IF x THEN 1 ELSE 0>>, <<>>)

RECURSIVE OddPart(_)
OddPart(n) == IF n % 2 = 0 /\ n # 0 THEN OddPart(n \div 2) ELSE n

RECURSIVE TwoExponent(_)
TwoExponent(n) == IF n % 2 = 0 /\ n # 0 THEN 1 + TwoExponent(n \div 2) ELSE 0

\* the number n * 2^x
Dyadic(n, x) ==
    LET mag == IF n < 0 THEN -n ELSE n
    IN  Val("number",
            <<0, IF n < 0 THEN 1 ELSE 0, OddPart(mag),
              IF mag = 0 THEN 0 ELSE x + TwoExponent(mag)>>, <<>>)

Num(n) == Dyadic(n, 0)

NegZero == Val("number", <<0, 1, 0, 0>>, <<>>)

PosInfinity == Val("number", <<1, 0, 0, 0>>, <<>>)

NegInfinity == Val("number", <<1, 1, 0, 0>>, <<>>)

NaN == Val("number", <<2, 0, 0, 0>>, <<>>)

Str(s) == Val("string", s, <<>>)

BigInt(n) == Val("bigint", <<n>>, <<>>)

Date(ms) == Val("date", ms.a, <<>>)

RegExp(source, flags) == Val("regexp", source, flags)

Function == Val("function", <<>>, <<>>)

Symbol == Val("symbol", <<>>, <<>>)

Obj(id) == Val("object", <<id>>, <<>>)

(***************************************************************************)
(* DataView.setFloat64 / getFloat64: IEEE-754 binary64, big-endian.         *)
(***************************************************************************)
Float64Bits(a) ==
    IF a[1] = 2 THEN <<0>> \o Bits(2047, 11) \o <<1>> \o Zeros(51)
    ELSE IF a[1] = 1 THEN <<a[2]>> \o Bits(2047, 11) \o Zeros(52)
    ELSE IF a[3] = 0 THEN <<a[2]>> \o Zeros(63)
    ELSE LET bin == Bin(a[3])
             L == Len(bin) - 1
         IN  <<a[2]>> \o Bits(a[4] + L + 1023, 11) \o Tail(bin) \o Zeros(52 - L)

setFloat64(a) == BitsToBytes(Float64Bits(a))

getFloat64(bytes) ==
    LET bits == BytesToBits(bytes)
        sign == bits[1]
        E == BitsValue(SubSeq(bits, 2, 12))
        frac == StripTrailingZeros(SubSeq(bits, 13, 64))
    IN  IF E = 2047 THEN (IF frac = <<>> THEN <<1, sign, 0, 0>> ELSE <<2, 0, 0, 0>>)
        ELSE IF E = 0
        THEN (IF frac = <<>> THEN <<0, sign, 0, 0>>
              ELSE <<0, sign, BitsValue(frac), -1022 - Len(frac)>>)
        ELSE <<0, sign, BitsValue(<<1>> \o frac), E - 1023 - Len(frac)>>

(***************************************************************************)
(* Conversions of the scalar codec.                                         *)
(***************************************************************************)
\* BigInt.prototype.toString(): decimal digits, "-" first when negative
BigIntToString(n) ==
    IF n < 0 THEN <<45>> \o DecimalDigits(-n) ELSE DecimalDigits(n)

\* BigInt(s) of what BigIntToString wrote
StringToBigInt(s) ==
    IF s = <<>> THEN 0
    ELSE IF s[1] = 45 THEN -DecimalValue(Tail(s))
    ELSE DecimalValue(s)

\* RegExp.prototype.toString(): "/" + source + "/" + flags
RegExpToString(source, flags) == <<47>> \o source \o <<47>> \o flags

\* the source of new RegExp(pattern): the pattern with every "/" that no
\* backslash precedes written as "\/", and "(?:)" for the empty pattern
RECURSIVE EscapeRegExpPattern(_)
EscapeRegExpPattern(p) ==
    IF p = <<>> THEN <<>>
    ELSE IF p[1] = 92 /\ Len(p) >= 2
    THEN <<p[1], p[2]>> \o EscapeRegExpPattern(SubSeq(p, 3, Len(p)))
    ELSE IF p[1] = 47 THEN <<92, 47>> \o EscapeRegExpPattern(Tail(p))
    ELSE <<p[1]>> \o EscapeRegExpPattern(Tail(p))

\* new RegExp(s): one argument, so the pattern is s and there are no flags
NewRegExp(s) ==
    RegExp(IF s = <<>> THEN <<40, 63, 58, 41>> ELSE EscapeRegExpPattern(s), <<>>)

(***************************************************************************)
(* The source objects a caller can pass to a write: Object.entries of each  *)
(* in order.  kind "instance" is an object whose prototype is neither null  *)
(* nor Object.prototype (and that is no array, Date or RegExp).             *)
(***************************************************************************)
Entry(k, v) == [k |-> k, v |-> v]

Object(kind, entries) == [kind |-> kind, entries |-> entries]

\* property names
K_a == <<97>>
K_b == <<98>>
K_ab == <<97, 98>>
K_x == <<120>>
K_y == <<121>>
K_0 == <<48>>
K_1 == <<49>>
K_2 == <<50>>
K_255 == <<50, 53, 53>>
K_self == <<115, 101, 108, 102>>
K_length == <<108, 101, 110, 103, 116, 104>>
K_01 == <<48, 49>>
K_at == <<97, 116>>
K_bad == <<97, 65535>>

SourceHeap ==
    <<
      \* 1: {a: {b: 1}}
      Object("record", <<Entry(K_a, Obj(2))>>),
      \* 2: {b: 1}
      Object("record", <<Entry(K_b, Num(1))>>),
      \* 3: x = {}; x.self = x
      Object("record", <<Entry(K_self, Obj(3))>>),
      \* 4: [10, 30, [20]]
      Object("array", <<Entry(K_0, Num(10)), Entry(K_1, Num(30)), Entry(K_2, Obj(5))>>),
      \* 5: [20]
      Object("array", <<Entry(K_0, Num(20))>>),
      \* 6: {a: 1, b: function () {}}: the second child is unsupported
      Object("record", <<Entry(K_a, Num(1)), Entry(K_b, Function)>>),
      \* 7: {x: s, y: s} with s the object 2: shared, not cyclic
      Object("record", <<Entry(K_x, Obj(2)), Entry(K_y, Obj(2))>>),
      \* 8: {a: y} with y = [x8]: a cycle through an array
      Object("record", <<Entry(K_a, Obj(9))>>),
      \* 9: [object 8]
      Object("array", <<Entry(K_0, Obj(8))>>),
      \* 10: {length: 1}
      Object("record", <<Entry(K_length, Num(1))>>),
      \* 11: new (class {})()
      Object("instance", <<>>),
      \* 12: {a: 1, "a\uffff": 2}: the second key has an invalid code unit
      Object("record", <<Entry(K_a, Num(1)), Entry(K_bad, Num(2))>>),
      \* 13: []
      Object("array", <<>>),
      \* 14: {}
      Object("record", <<>>),
      \* 15: {1: 1, "01": 2}: integer-like keys come first in Object.entries
      Object("record", <<Entry(K_1, Num(1)), Entry(K_01, Num(2))>>),
      \* 16: {...T.a, b: 1} when T.a is {a: {b: 1}}: the copy holds the handle
      \* that T.a.a returned
      Object("record",
             <<Entry(K_a, [Val("null-handle", <<>>, <<>>) EXCEPT
                               !.p = <<StrSeg(K_a), StrSeg(K_a)>>]),
               Entry(K_b, Num(1))>>)
    >>

IsObject(value) == value.t = "object"

\* Array.isArray(value); the proxy of an array handle has an array as target
IsArray(value) ==
    \/ IsObject(value) /\ SourceHeap[value.a[1]].kind = "array"
    \/ value.t = "array-handle"

\* typeof value === "object" && value !== null
\*   && [null, Object.prototype].includes(Object.getPrototypeOf(value));
\* the getPrototypeOf trap of a record handle returns null
IsPlainRecord(value) ==
    \/ IsObject(value) /\ SourceHeap[value.a[1]].kind = "record"
    \/ value.t = "null-handle"

\* Object.entries(value) of an object of the caller
ObjectEntries(value) == SourceHeap[value.a[1]].entries

(***************************************************************************)
(* encodeScalar / decodeScalar / encodeComplex / datatype.                  *)
(***************************************************************************)
\* the error encodeScalar throws for the value, "none" when it returns
encodeScalarError(value) ==
    CASE value.t \in {"boolean", "number", "null", "date", "bigint"} -> "none"
      [] value.t = "string" ->
            IF ValidString(value.a) THEN "none" ELSE "InvalidCodeUnit"
      [] value.t = "regexp" ->
            IF ValidString(RegExpToString(value.a, value.b))
            THEN "none" ELSE "InvalidCodeUnit"
      [] OTHER -> "Unsupported"

encodeScalar(value) ==
    CASE value.t = "boolean" ->
            <<IF value.a[1] = 1 THEN TAG_TRUE ELSE TAG_FALSE>>
      [] value.t = "number" -> <<TAG_NUMBER>> \o setFloat64(value.a)
      [] value.t = "string" -> <<TAG_STRING>> \o encodeString(value.a)
      [] value.t = "bigint" ->
            <<TAG_BIGINT>> \o encodeString(BigIntToString(value.a[1]))
      [] value.t = "null" -> <<TAG_NULL>>
      [] value.t = "date" -> <<TAG_DATE>> \o setFloat64(value.a)
      [] value.t = "regexp" ->
            <<TAG_REGEXP>> \o encodeString(RegExpToString(value.a, value.b))

decodeScalar(from) ==
    CASE from[1] = TAG_NULL -> Null
      [] from[1] = TAG_TRUE -> Bool(TRUE)
      [] from[1] = TAG_FALSE -> Bool(FALSE)
      [] from[1] = TAG_NUMBER -> Val("number", getFloat64(SubSeq(from, 2, 9)), <<>>)
      [] from[1] = TAG_STRING -> Str(decodeString(Tail(from)))
      [] from[1] = TAG_BIGINT -> BigInt(StringToBigInt(decodeString(Tail(from))))
      [] from[1] = TAG_DATE -> Val("date", getFloat64(SubSeq(from, 2, 9)), <<>>)
      [] from[1] = TAG_REGEXP -> NewRegExp(decodeString(Tail(from)))

encodeComplex(type) ==
    <<IF type = "array" THEN COMPLEX_TAG_ARRAY ELSE COMPLEX_TAG_RECORD>>

datatype(of) ==
    IF of[1] = COMPLEX_TAG_RECORD THEN "record"
    ELSE IF of[1] = COMPLEX_TAG_ARRAY THEN "array"
    ELSE "scalar"

(***************************************************************************)
(* The backing table and the five prepared statements.  A row is            *)
(* [path |-> bytes, value |-> bytes]; path is the primary key.              *)
(*                                                                         *)
(* A handler runs on a record st:                                           *)
(*   rows    the rows of the table as the connection sees them              *)
(*   open    a transaction is open; saved: the rows when it began           *)
(*   log     the statements run, in order                                   *)
(*   err     the exception that is propagating, "none" when there is none   *)
(*   thrown  the first exception raised; dirty: rows differed from saved    *)
(*           when an exception was raised inside the transaction            *)
(*   cyc     the objects in the WeakSet of the write in progress            *)
(*   slot    target[CYCLES] of the handle the caller used is set            *)
(*   ret     what the handler returned                                      *)
(*   changes result.changes of the last DELETE                              *)
(***************************************************************************)
InRange(path, lower, upper) == BytesLeq(lower, path) /\ BytesLess(path, upper)

Throw(st, e) ==
    [st EXCEPT !.err = e,
               !.thrown = IF @ = "none" THEN e ELSE @,
               !.dirty = @ \/ (st.open /\ st.rows # st.saved)]

Logged(st, what) == [st EXCEPT !.log = Append(@, what)]

\* database.exec("BEGIN")
ExecBegin(st) ==
    IF st.open THEN Throw(Logged(st, "BEGIN"), "Backend")
    ELSE [Logged(st, "BEGIN") EXCEPT !.open = TRUE, !.saved = st.rows]

\* database.exec("COMMIT")
ExecCommit(st) ==
    IF ~st.open THEN Throw(Logged(st, "COMMIT"), "Backend")
    ELSE [Logged(st, "COMMIT") EXCEPT !.open = FALSE, !.saved = {}]

\* database.exec("ROLLBACK")
ExecRollback(st) ==
    IF ~st.open THEN Throw(Logged(st, "ROLLBACK"), "Backend")
    ELSE [Logged(st, "ROLLBACK") EXCEPT !.open = FALSE, !.saved = {},
                                        !.rows = st.saved]

\* SELECT value FROM t WHERE path == :path
SelectOne(rows, path) == {r \in rows : r.path = path}

\* the rows of a set in ascending order of path
RECURSIVE SortedRows(_)
SortedRows(found) ==
    IF found = {} THEN <<>>
    ELSE LET first == CHOOSE r \in found :
                          \A q \in found : BytesLeq(r.path, q.path)
         IN  <<first>> \o SortedRows(found \ {first})

\* SELECT path, value FROM t WHERE path >= :lower AND path < :upper
\* (a WITHOUT ROWID table is scanned in primary key order)
SelectMany(rows, lower, upper) ==
    SortedRows({r \in rows : InRange(r.path, lower, upper)})

\* INSERT INTO t (path, value) VALUES (:path, :value)
InsertRun(st, path, value) ==
    IF \E r \in st.rows : r.path = path
    THEN Throw(Logged(st, "INSERT"), "Backend")
    ELSE [Logged(st, "INSERT") EXCEPT
              !.rows = @ \cup {[path |-> path, value |-> value]}]

\* DELETE FROM t WHERE path >= :lower AND path < :upper
DeleteRun(st, lower, upper) ==
    LET gone == {r \in st.rows : InRange(r.path, lower, upper)}
    IN  [Logged(st, "DELETE") EXCEPT !.rows = @ \ gone,
                                    !.changes = Cardinality(gone)]

\* SELECT path FROM t WHERE LENGTH(path) == LENGTH(:lower)
\*   AND path >= :lower AND path < :upper ORDER BY path DESC LIMIT 1
\* a greatest-row query without the LENGTH(path) = LENGTH(:lower) condition
LengthGet_AnyDepth(rows, lower, upper) ==
    LET found == {r \in rows : InRange(r.path, lower, upper)}
    IN  {r \in found : \A q \in found : BytesLeq(q.path, r.path)}

LengthGet(rows, lower, upper) ==
    LET found == {r \in rows : Len(r.path) = Len(lower)
                                 /\ InRange(r.path, lower, upper)}
    IN  {r \in found : \A q \in found : BytesLeq(q.path, r.path)}

(***************************************************************************)
(* Handles.  A handle (the inner object of a proxy) is                      *)
(* [proto |-> "null" or "array", prefix |-> path, cycles |-> BOOLEAN],      *)
(* cycles saying whether its CYCLES slot holds a WeakSet.                   *)
(***************************************************************************)
Handle(proto, prefix) == [proto |-> proto, prefix |-> prefix, cycles |-> FALSE]

\* table(database, name)
RootHandle == Handle("null", <<>>)

\* what a read returns for a stored composite: a fresh handle
HandleValue(proto, prefix) == [Val(proto, <<>>, <<>>) EXCEPT !.p = prefix]

IsHandleValue(value) == value.t \in {"null-handle", "array-handle"}

\* instanciate(from, inner, prefix)
instanciate(from, prefix) ==
    CASE datatype(from) = "record" -> HandleValue("null-handle", prefix)
      [] datatype(from) = "array" -> HandleValue("array-handle", prefix)
      [] OTHER -> decodeScalar(from)

\* the handle a handle value stands for
HandleOf(value) ==
    Handle(IF value.t = "array-handle" THEN "array" ELSE "null", value.p)

(***************************************************************************)
(* The read handlers of the proxy and Database.entries.                     *)
(***************************************************************************)
\* a descriptor read: defined says whether there is one, err what was thrown
Found(value) == [defined |-> TRUE, value |-> value, err |-> "none"]

NotFound == [defined |-> FALSE, value |-> Undefined, err |-> "none"]

ReadError(e) == [defined |-> FALSE, value |-> Undefined, err |-> e]

getOwnPropertyDescriptor(rows_, target, prop) ==
    IF target.proto = "array" /\ prop = K_length
    THEN LET row == LengthGet(rows_,
                        encodePath(Append(target.prefix, NumSeg(0))),
                        encodePath(target.prefix) \o <<PATH_TAG_NUMBER>>
                            \o UINT32_MAX_BYTES)
         IN  IF row = {} THEN Found(Num(0))
             ELSE LET decoded == decodePath((CHOOSE r \in row : TRUE).path)
                  IN  Found(Num(Last(decoded).n + 1))
    ELSE LET prefix == Append(target.prefix, key(prop))
         IN  IF ~ValidPath(prefix) THEN ReadError("InvalidCodeUnit")
             ELSE LET row == SelectOne(rows_, encodePath(prefix))
                  IN  IF row = {} THEN NotFound
                      ELSE Found(instanciate((CHOOSE r \in row : TRUE).value, prefix))

\* the property names of this model that Array.prototype has
ArrayPrototypeNames == {K_at, K_length}

\* the get trap; without a descriptor the prototype chain answers:
\* Reflect.get(Array.prototype, "at") is a function
get(rows_, target, prop) ==
    LET descriptor == getOwnPropertyDescriptor(rows_, target, prop)
    IN  IF descriptor.defined THEN descriptor.value
        ELSE IF target.proto = "null" THEN Undefined
        ELSE IF prop = K_at THEN Function
        ELSE Undefined

\* a has trap that does not look at the prototype
has_OwnOnly(rows_, target, prop) ==
    getOwnPropertyDescriptor(rows_, target, prop).defined

\* the has trap
has(rows_, target, prop) ==
    LET descriptor == getOwnPropertyDescriptor(rows_, target, prop)
    IN  IF descriptor.defined THEN TRUE
        ELSE IF target.proto = "null" THEN FALSE
        ELSE prop \in ArrayPrototypeNames

\* Database.entries(object) of a handle: the [key, value] pairs in row order
RECURSIVE EntriesOf(_, _)
EntriesOf(found, prefix) ==
    IF found = <<>> THEN <<>>
    ELSE LET path == decodePath(found[1].path)
             rest == EntriesOf(Tail(found), prefix)
         IN  IF Len(path) = Len(prefix) + 1
             THEN <<Entry(Last(path), instanciate(found[1].value, path))>> \o rest
             ELSE rest

entries(rows_, target) ==
    LET encoded == encodePath(target.prefix)
    IN  EntriesOf(SelectMany(rows_, encoded, increment(encoded)), target.prefix)

\* the ownKeys trap
ownKeys(rows_, target) ==
    (IF target.proto = "array" THEN <<K_length>> ELSE <<>>)
        \o [i \in DOMAIN entries(rows_, target) |->
               SegmentName(entries(rows_, target)[i].k)]

\* Object.entries(value) of a value that may be a handle.  For a handle the
\* keys are those of the ownKeys trap and each is looked up through the
\* getOwnPropertyDescriptor trap; the proxy rejects the descriptor of "length"
\* of an array handle without rows, which says configurable: true of a
\* property that is not configurable on the target array
SourceEntriesError(rows_, value) ==
    IF value.t = "array-handle"
         /\ LengthGet(rows_, encodePath(Append(value.p, NumSeg(0))),
                      encodePath(value.p) \o <<PATH_TAG_NUMBER>> \o UINT32_MAX_BYTES)
              = {}
    THEN "ProxyInvariant" ELSE "none"

SourceEntries(rows_, value) ==
    IF IsHandleValue(value)
    THEN LET found == entries(rows_, HandleOf(value))
         IN  [i \in DOMAIN found |-> Entry(SegmentName(found[i].k), found[i].v)]
    ELSE ObjectEntries(value)

(***************************************************************************)
(* The write handlers of the proxy.                                         *)
(***************************************************************************)
\* a property descriptor; a flag is "true", "false" or "undefined"
Descriptor(value, enumerable, configurable, writable) ==
    [value |-> value, enumerable |-> enumerable,
     configurable |-> configurable, writable |-> writable]

\* Number(value), as a number a, for the values of this model: a number is
\* itself, null and [] are 0, a boolean 0 or 1, a bigint and a date their
\* value, a string of digits its value, [n] is n, and the rest is NaN
ToNumber(value) ==
    CASE value.t \in {"number", "date"} -> value.a
      [] value.t = "null" -> Num(0).a
      [] value.t = "boolean" -> Num(value.a[1]).a
      [] value.t = "bigint" -> Num(value.a[1]).a
      [] value.t = "string" ->
            (LET n == StringToNumber(value.a)
             IN  IF n.nan THEN NaN.a ELSE Num(n.n).a)
      [] IsArray(value) /\ ObjectEntries(value) = <<>> -> Num(0).a
      [] IsArray(value) /\ Len(ObjectEntries(value)) = 1
           /\ ObjectEntries(value)[1].v.t = "number" -> ObjectEntries(value)[1].v.a
      [] OTHER -> NaN.a

\* Number.isSafeInteger(length) && length >= 0 && length < 0xffff_ffff, for
\* the numbers below 2^31 (the integers of this model)
ValidLength(a) ==
    /\ a[1] = 0
    /\ a[4] >= 0
    /\ a[3] = 0 \/ a[2] = 0
    /\ a[4] <= 30
    /\ a[3] <= 2147483647 \div Pow2(a[4])

LengthValue(a) == a[3] * Pow2(a[4])

\* a delete over the range of the handle's own prefix
deleteProperty_WholeHandle(st, target, prop) ==
    IF target.proto = "array" /\ prop = K_length THEN [st EXCEPT !.ret = FALSE]
    ELSE LET prefix == Append(target.prefix, key(prop))
         IN  IF ~ValidPath(prefix) THEN Throw(st, "InvalidCodeUnit")
             ELSE LET encoded == encodePath(target.prefix)
                      result == DeleteRun(st, encoded, increment(encoded))
                  IN  [result EXCEPT !.ret = result.changes > 0]

deleteProperty(st, target, prop) ==
    IF target.proto = "array" /\ prop = K_length THEN [st EXCEPT !.ret = FALSE]
    ELSE LET prefix == Append(target.prefix, key(prop))
         IN  IF ~ValidPath(prefix) THEN Throw(st, "InvalidCodeUnit")
             ELSE LET encoded == encodePath(prefix)
                      result == DeleteRun(st, encoded, increment(encoded))
                  IN  [result EXCEPT !.ret = result.changes > 0]

\* a write that begins a transaction at every depth
BeginWrite_AtEveryDepth(st, cycles, encoded) ==
    LET begun == ExecBegin(st)
    IN  IF begun.err # "none" THEN begun
        ELSE DeleteRun(begun, encoded, increment(encoded))

\* if (!cycles) { BEGIN; delete the range of the key }
BeginWrite(st, cycles, encoded) ==
    IF cycles THEN st
    ELSE LET begun == ExecBegin(st)
         IN  IF begun.err # "none" THEN begun
             ELSE DeleteRun(begun, encoded, increment(encoded))

\* a truncation that starts one index too far
LengthBranch_OffByOne(st, target, desc) ==
    LET length == ToNumber(desc.value)
    IN  IF ~ValidLength(length) THEN Throw(st, "InvalidArrayLength")
        ELSE IF desc.enumerable = "true" \/ desc.configurable = "true"
                  \/ desc.writable = "false"
        THEN Throw(st, "InvalidDescriptor")
        ELSE DeleteRun(st,
                 encodePath(Append(target.prefix, NumSeg(LengthValue(length) + 1))),
                 encodePath(target.prefix) \o <<PATH_TAG_NUMBER>> \o UINT32_MAX_BYTES)

\* the branch of an array handle's "length"
LengthBranch(st, target, desc) ==
    LET length == ToNumber(desc.value)
    IN  IF ~ValidLength(length) THEN Throw(st, "InvalidArrayLength")
        ELSE IF desc.enumerable = "true" \/ desc.configurable = "true"
                  \/ desc.writable = "false"
        THEN Throw(st, "InvalidDescriptor")
        ELSE DeleteRun(st,
                 encodePath(Append(target.prefix, NumSeg(LengthValue(length)))),
                 encodePath(target.prefix) \o <<PATH_TAG_NUMBER>> \o UINT32_MAX_BYTES)

InvalidDescriptor(desc) ==
    desc.enumerable = "false" \/ desc.configurable = "false" \/ desc.writable = "false"

\* the branch of a value that is neither an array nor a plain record
ScalarBranch(st, encoded, desc) ==
    IF InvalidDescriptor(desc) THEN Throw(st, "InvalidDescriptor")
    ELSE IF encodeScalarError(desc.value) # "none"
    THEN Throw(st, encodeScalarError(desc.value))
    ELSE InsertRun(st, encoded, encodeScalar(desc.value))

\* if (!cycles) target[CYCLES] = new WeakSet([value])
\* else { if (cycles.has(value)) throw; cycles.add(value) }
\* (every read returns a new proxy, so a handle is never in the set already)
CycleGuard(st, cycles, value) ==
    IF IsHandleValue(value)
    THEN (IF ~cycles THEN [st EXCEPT !.slot = TRUE, !.cyc = {}] ELSE st)
    ELSE IF ~cycles THEN [st EXCEPT !.slot = TRUE, !.cyc = {value.a[1]}]
    ELSE IF value.a[1] \in st.cyc THEN Throw(st, "Cycle")
    ELSE [st EXCEPT !.cyc = @ \cup {value.a[1]}]

\* a catch block that rethrows without rolling back
Catch_NoRollback(st, cycles) == st

\* catch (err) { if (!cycles) ROLLBACK; throw err }
Catch(st, cycles) ==
    IF st.err # "none" /\ ~cycles THEN ExecRollback(st) ELSE st

\* a finally block that leaves the WeakSet on the handle
Finally_KeepsGuard(st, cycles) == st

\* finally { if (!cycles) target[CYCLES] = undefined }
Finally(st, cycles) ==
    IF ~cycles THEN [st EXCEPT !.slot = FALSE, !.cyc = {}] ELSE st

\* if (!cycles) COMMIT; return true
Commit(st, cycles) ==
    IF st.err # "none" THEN st
    ELSE LET done == IF ~cycles THEN ExecCommit(st) ELSE st
         IN  IF done.err # "none" THEN done ELSE [done EXCEPT !.ret = TRUE]

RECURSIVE defineProperty(_, _, _, _)

\* the set trap: the descriptor of "length" on an array, of a property else
set(st, target, prop, value) ==
    IF target.proto = "array" /\ prop = K_length
    THEN defineProperty(st, target, prop, Descriptor(value, "false", "false", "true"))
    ELSE defineProperty(st, target, prop, Descriptor(value, "true", "true", "true"))

\* for (const [k, v] of Object.entries(value)) this.set(t, k, v, t)
RECURSIVE WriteEntries(_, _, _, _)
WriteEntries(st, t, pairs, i) ==
    IF i > Len(pairs) \/ st.err # "none" THEN st
    ELSE WriteEntries(set(st, t, pairs[i].k, pairs[i].v), t, pairs, i + 1)

\* the branch of an array or a plain record
CompositeBranch(st, target, prefix, encoded, desc, cycles) ==
    LET guarded == CycleGuard(st, cycles, desc.value)
        array == IsArray(desc.value)
    IN  IF guarded.err # "none" THEN guarded
        ELSE IF InvalidDescriptor(desc) THEN Throw(guarded, "InvalidDescriptor")
        ELSE LET marked == InsertRun(guarded, encoded,
                               encodeComplex(IF array THEN "array" ELSE "record"))
                 t == [proto |-> IF array THEN "array" ELSE "null",
                       prefix |-> prefix,
                       cycles |-> IF cycles THEN target.cycles ELSE guarded.slot]
             IN  IF marked.err # "none" THEN marked
                 ELSE IF SourceEntriesError(marked.rows, desc.value) # "none"
                 THEN Throw(marked, SourceEntriesError(marked.rows, desc.value))
                 ELSE WriteEntries(marked, t,
                                   SourceEntries(marked.rows, desc.value), 1)

defineProperty(st, target, prop, desc) ==
    LET value == desc.value
    IN  IF value = Undefined
        THEN (LET deleted == deleteProperty(st, target, prop)
              IN  IF deleted.err # "none" THEN deleted
                  ELSE [deleted EXCEPT !.ret = TRUE])
        ELSE
        LET prefix == Append(target.prefix, key(prop))
        IN  IF ~ValidPath(prefix) THEN Throw(st, "InvalidCodeUnit")
            ELSE
            LET encoded == encodePath(prefix)
                cycles == target.cycles
                begun == BeginWrite(st, cycles, encoded)
                tried ==
                    IF begun.err # "none" THEN begun
                    ELSE IF target.proto = "array" /\ prop = K_length
                    THEN LengthBranch(begun, target, desc)
                    ELSE IF ~IsArray(value) /\ ~IsPlainRecord(value)
                    THEN ScalarBranch(begun, encoded, desc)
                    ELSE CompositeBranch(begun, target, prefix, encoded, desc, cycles)
            IN  Commit(Finally(Catch(tried, cycles), cycles), cycles)

(***************************************************************************)
(* The state machine: a caller working on one table through the root       *)
(* handle and the handles its reads returned.                               *)
(***************************************************************************)
VARIABLES
    rows,      \* the rows of the table
    txn,       \* [open, saved]: the transaction of the connection
    handles,   \* the handles the caller holds
    last,      \* the last write: the call and what it did
    nops,      \* the number of writes so far
    workload,  \* the property names and values the caller uses
    sample     \* two paths and what the path codec made of them

vars == <<rows, txn, handles, last, nops, workload, sample>>

\* bounds of the model
MaxOps == 3
MaxHandles == 2
MaxSampleLen == 2

DefaultFlags == <<"true", "true", "true">>

\* the property names, the values written and the descriptor flags of
\* Object.defineProperty calls, per workload; a workload makes MaxOps writes
\* less `short`
Workloads ==
    <<
      \* overwriting and deleting subtrees, failing writes
      [keys |-> {K_255, K_a},
       inner |-> {K_255, K_a},
       vals |-> {Num(42), Obj(1), Obj(3), Obj(6), Obj(12)},
       flags |-> {<<"undefined", "false", "undefined">>},
       short |-> 0],
      \* arrays and their length
      [keys |-> {K_a},
       inner |-> {K_length, K_1},
       vals |-> {Obj(4), Obj(10), Obj(13), Num(2)},
       flags |-> {},
       short |-> 0],
      \* scalars
      [keys |-> {K_255, K_0},
       inner |-> {},
       vals |-> {Null, Bool(TRUE), Bool(FALSE), Num(-5), Dyadic(5, -1), NaN,
                 NegInfinity, NegZero, Str(K_ab), Str(<<>>), BigInt(-1200),
                 BigInt(0), Date(Num(86400000)), RegExp(K_ab, K_x), Undefined},
       flags |-> {},
       short |-> 1],
      \* appending to an array, shared sub-objects, keys that normalise alike
      [keys |-> {K_a},
       inner |-> {K_1, K_length},
       vals |-> {Obj(5), Obj(7), Obj(15), RegExp(K_ab, K_x), Num(2)},
       flags |-> {},
       short |-> 0],
      \* handles passed as values, property names that normalise alike
      [keys |-> {K_a, K_b},
       inner |-> {K_1, K_01},
       vals |-> {Obj(1), Obj(5), Obj(16), Num(2),
                 HandleValue("null-handle", <<StrSeg(K_a)>>),
                 HandleValue("array-handle", <<StrSeg(K_a)>>)},
       flags |-> {},
       short |-> 0]
    >>

\* the segments and the paths the path codec is tried on
SampleSegments ==
    {NumSeg(1), NumSeg(2), NumSeg(255), NumSeg(256), StrSeg(K_a), StrSeg(K_ab)}

RECURSIVE PathsOfLength(_)
PathsOfLength(n) ==
    IF n = 0 THEN {<<>>}
    ELSE {Append(path, x) : path \in PathsOfLength(n - 1), x \in SampleSegments}

SamplePaths == UNION {PathsOfLength(n) : n \in 0 .. MaxSampleLen}

NoSample ==
    [stage |-> "none", p1 |-> <<>>, p2 |-> <<>>, lower |-> <<>>, other |-> <<>>,
     upper |-> <<>>]

StartState(open, saved, slot) ==
    [rows |-> rows, open |-> open, saved |-> saved, log |-> <<>>, err |-> "none",
     thrown |-> "none", dirty |-> FALSE, cyc |-> {}, slot |-> slot,
     ret |-> FALSE, changes |-> 0]

Call(op, h, k, v, st) ==
    [op |-> op, h |-> h, k |-> k, v |-> v, err |-> st.err, ret |-> st.ret,
     log |-> st.log, thrown |-> st.thrown, dirty |-> st.dirty,
     changes |-> st.changes]

Init ==
    /\ rows = {}
    /\ txn = [open |-> FALSE, saved |-> {}]
    /\ handles = {RootHandle}
    /\ last = Call("open", RootHandle, <<>>, Undefined, StartState(FALSE, {}, FALSE))
    /\ nops = 0
    /\ workload \in DOMAIN Workloads
    /\ sample = NoSample

\* what a write leaves behind
Finish(op, h, k, v, st) ==
    /\ rows' = st.rows
    /\ txn' = [open |-> st.open, saved |-> st.saved]
    /\ handles' = (handles \ {h}) \cup {[h EXCEPT !.cycles = st.slot]}
    /\ last' = Call(op, h, k, v, st)
    /\ nops' = nops + 1
    /\ UNCHANGED <<workload, sample>>

\* the handles a value of the caller is or holds in its own properties, each
\* with the path it is written at when the value is written at `path`
HandlesIn(v, path) ==
    IF IsHandleValue(v) THEN {[handle |-> v, at |-> path]}
    ELSE IF IsObject(v) /\ (IsArray(v) \/ IsPlainRecord(v))
    THEN {[handle |-> ObjectEntries(v)[i].v,
           at |-> Append(path, key(ObjectEntries(v)[i].k))] :
              i \in {j \in DOMAIN ObjectEntries(v) :
                         IsHandleValue(ObjectEntries(v)[j].v)}}
    ELSE {}

\* the values the caller can pass to a write of h[k]: a handle is one the
\* caller holds or one that a read returns now, and no handle is written
\* below its own prefix (that write never ends: its source grows as it is
\* read)
Passable(h, k, v) ==
    \A x \in HandlesIn(v, Append(h.prefix, key(k))) :
        /\ \/ HandleOf(x.handle) \in handles
           \/ \E r \in SelectOne(rows, encodePath(x.handle.p)) :
                  instanciate(r.value, x.handle.p) = x.handle
        /\ ~(IsPrefixOf(x.handle.p, x.at) /\ x.handle.p # x.at)

\* h[k] = v
Set(h, k, v) ==
    /\ nops < MaxOps - Workloads[workload].short
    /\ Passable(h, k, v)
    /\ \E st \in {set(StartState(txn.open, txn.saved, h.cycles), h, k, v)} :
           Finish("set", h, k, v, st)

\* Object.defineProperty(h, k, {value: v, ...flags})
Define(h, k, v, flags) ==
    /\ nops < MaxOps - Workloads[workload].short
    /\ Passable(h, k, v)
    /\ \E st \in {defineProperty(StartState(txn.open, txn.saved, h.cycles), h, k,
                                  Descriptor(v, flags[1], flags[2], flags[3]))} :
           Finish("define", h, k, v, st)

\* delete h[k]
Delete(h, k) ==
    /\ nops < MaxOps - Workloads[workload].short
    /\ \E st \in {deleteProperty(StartState(txn.open, txn.saved, h.cycles), h, k)} :
           Finish("delete", h, k, Undefined, st)

\* h[k], kept by the caller when it is a handle
Get(h, k) ==
    /\ Cardinality(handles) < MaxHandles
    /\ IsHandleValue(get(rows, h, k))
    /\ HandleOf(get(rows, h, k)) \notin handles
    /\ handles' = handles \cup {HandleOf(get(rows, h, k))}
    /\ UNCHANGED <<rows, txn, last, nops, workload, sample>>

\* the property names the caller uses on the root handle and on the others
Keys(h) ==
    IF h.prefix = <<>> THEN Workloads[workload].keys ELSE Workloads[workload].inner

Values == Workloads[workload].vals

SetStep == \E h \in handles : \E k \in Keys(h), v \in Values : Set(h, k, v)

DefineStep ==
    \E h \in handles :
        \E k \in Keys(h), v \in Values, flags \in Workloads[workload].flags :
            Define(h, k, v, flags)

DeleteStep == \E h \in handles : \E k \in Keys(h) : Delete(h, k)

GetStep == \E h \in handles : \E k \in Keys(h) : Get(h, k)

Next == SetStep \/ DefineStep \/ DeleteStep \/ GetStep

Spec == Init /\ [][Next]_vars

(***************************************************************************)
(* The path codec on its own: two paths are drawn, encoded, and the range   *)
(* of the first is computed as the handlers compute it.                     *)
(***************************************************************************)
InitPaths ==
    /\ rows = {}
    /\ txn = [open |-> FALSE, saved |-> {}]
    /\ handles = {RootHandle}
    /\ last = Call("open", RootHandle, <<>>, Undefined, StartState(FALSE, {}, FALSE))
    /\ nops = 0
    /\ workload = 1
    /\ \E p1 \in SamplePaths, p2 \in SamplePaths :
           sample = [NoSample EXCEPT !.stage = "drawn", !.p1 = p1, !.p2 = p2]

\* encodePath(p1), encodePath(p2)
EncodeStep ==
    /\ sample.stage = "drawn"
    /\ sample' = [sample EXCEPT !.stage = "encoded",
                                !.lower = encodePath(sample.p1),
                                !.other = encodePath(sample.p2)]
    /\ UNCHANGED <<rows, txn, handles, last, nops, workload>>

\* increment(encoded), the upper end of the range of p1
RangeStep ==
    /\ sample.stage = "encoded"
    /\ sample' = [sample EXCEPT !.stage = "ranged",
                                !.upper = increment(sample.lower)]
    /\ UNCHANGED <<rows, txn, handles, last, nops, workload>>

NextPaths == EncodeStep \/ RangeStep

SpecPaths == InitPaths /\ [][NextPaths]_vars

(***************************************************************************)
(* Vocabulary of the properties.                                            *)
(***************************************************************************)
\* the path a handle and a property name address
TargetPath(h, k) == Append(h.prefix, key(k))

\* the rows whose path equals or extends `path`, segment by segment
Subtree(table, path) == {r \in table : IsPrefixOf(path, decodePath(r.path))}

\* a step that is a write (set, defineProperty or delete)
WriteStep == nops' = nops + 1

Count(what, log) == Cardinality({i \in DOMAIN log : log[i] = what})

\* a source object of the caller that is an array or a plain record
IsComposite(v) == IsObject(v) /\ (IsArray(v) \/ IsPlainRecord(v))

\* a value built from supported scalars, arrays and plain records, with legal
\* keys and without a cycle
RECURSIVE SupportedIn(_, _)
SupportedIn(v, seen) ==
    IF IsComposite(v)
    THEN /\ v.a[1] \notin seen
         /\ \A i \in DOMAIN ObjectEntries(v) :
                /\ ValidString(ObjectEntries(v)[i].k)
                /\ SupportedIn(ObjectEntries(v)[i].v, seen \cup {v.a[1]})
    ELSE /\ v.t \in {"null", "boolean", "number", "string", "bigint", "date", "regexp"}
         /\ v.t \in {"string", "regexp"} => ValidString(v.a) /\ ValidString(v.b)

Supported(v) == SupportedIn(v, {})

\* a value that reaches itself through its own properties
RECURSIVE CyclicIn(_, _)
CyclicIn(v, seen) ==
    /\ IsComposite(v)
    /\ \/ v.a[1] \in seen
       \/ \E i \in DOMAIN ObjectEntries(v) :
              CyclicIn(ObjectEntries(v)[i].v, seen \cup {v.a[1]})

Cyclic(v) == CyclicIn(v, {})

\* the rows of the data model for a supported value stored at `path`: one
\* marker row per composite, one row per scalar leaf
RECURSIVE Flatten(_, _)
Flatten(path, v) ==
    IF IsComposite(v)
    THEN {[path |-> encodePath(path),
           value |-> encodeComplex(IF IsArray(v) THEN "array" ELSE "record")]}
         \cup UNION {Flatten(Append(path, key(ObjectEntries(v)[i].k)),
                             ObjectEntries(v)[i].v) : i \in DOMAIN ObjectEntries(v)}
    ELSE {[path |-> encodePath(path), value |-> encodeScalar(v)]}

(***************************************************************************)
(* C1.  After set(h, k, T1) followed by set(h, k, T2), for supported T1 and  *)
(* T2, the rows whose path equals or extends P ++ [key(k)] are exactly the   *)
(* rows of T2; overwriting a composite with a scalar leaves exactly one row  *)
(* there and get(h, k) returns the scalar.                                   *)
(***************************************************************************)
C1_OverwriteReplacesSubtree ==
    [][(/\ WriteStep
        /\ last.op = "set" /\ Supported(last.v)
        /\ last'.op = "set" /\ Supported(last'.v)
        /\ last'.h.prefix = last.h.prefix /\ last'.h.proto = last.h.proto
        /\ last'.k = last.k)
       => LET Q == TargetPath(last'.h, last'.k)
          IN  /\ Subtree(rows', Q) = Flatten(Q, last'.v)
              /\ (IsComposite(last.v) /\ ~IsComposite(last'.v))
                    => /\ Cardinality(Subtree(rows', Q)) = 1
                       /\ get(rows', last'.h, last'.k) = last'.v]_vars

(***************************************************************************)
(* C2.  A top-level set in which an error is raised, at any depth, rolls    *)
(* back: the error is the one the caller gets, no transaction stays open,   *)
(* nothing is committed, and the rows are those from before the call.       *)
(***************************************************************************)
C2_FailedSetRollsBack ==
    [][(WriteStep /\ last'.op \in {"set", "define"} /\ last'.thrown # "none")
       => /\ last'.err = last'.thrown
          /\ rows' = rows
          /\ ~txn'.open
          /\ Count("COMMIT", last'.log) = 0
          /\ Count("BEGIN", last'.log) > 0 => Last(last'.log) = "ROLLBACK"]_vars

\* a set that failed on a nested child after the old subtree was deleted and
\* the marker and a first child were inserted
C2_Witness ==
    /\ last.op = "set"
    /\ last.thrown = "Unsupported"
    /\ last.dirty
    /\ last.changes > 0
    /\ Count("INSERT", last.log) >= 2
    /\ rows # {}

(***************************************************************************)
(* C3.  As claimed: every top-level set or delete opens exactly one          *)
(* transaction and ends it with exactly one COMMIT or ROLLBACK.              *)
(***************************************************************************)
C3_OneTransactionPerCall ==
    last.op \in {"set", "define", "delete"}
    => /\ Count("BEGIN", last.log) = 1
       /\ Count("COMMIT", last.log) + Count("ROLLBACK", last.log) = 1
       /\ Last(last.log) = (IF last.err = "none" THEN "COMMIT" ELSE "ROLLBACK")
       /\ ~txn.open

(***************************************************************************)
(* C3, amended.  A top-level set of a value begins exactly one transaction, *)
(* first of all, whatever the depth of the value, and ends it last of all   *)
(* with one COMMIT (success) or one ROLLBACK (error).  A delete, and a set  *)
(* of undefined, which is a delete, begins and ends none: its one DELETE    *)
(* runs in the auto-commit mode of the connection.  No transaction is open  *)
(* when a call has returned.                                                *)
(***************************************************************************)
C3_TransactionPerSet ==
    /\ ~txn.open
    /\ (last.op \in {"set", "define"} /\ last.v # Undefined
          /\ ValidPath(TargetPath(last.h, last.k)))
       => /\ last.log[1] = "BEGIN"
          /\ Count("BEGIN", last.log) = 1
          /\ Count("COMMIT", last.log) + Count("ROLLBACK", last.log) = 1
          /\ Last(last.log) = (IF last.err = "none" THEN "COMMIT" ELSE "ROLLBACK")
    /\ (last.op = "delete" \/ (last.op \in {"set", "define"} /\ last.v = Undefined))
       => /\ Count("BEGIN", last.log) = 0
          /\ Count("COMMIT", last.log) + Count("ROLLBACK", last.log) = 0
          /\ Len(last.log) <= 1

\* a committed write of a composite with nested children
C3_Witness ==
    /\ last.op = "set"
    /\ last.err = "none"
    /\ Count("INSERT", last.log) >= 3
    /\ Last(last.log) = "COMMIT"

\* an assignment to, or a removal of, the length of an array handle, which
\* the handlers treat apart from the properties stored as rows
OnLength(call) == call.h.proto = "array" /\ call.k = K_length

\* what a recursive enumeration of the stored subtree gives, compared with the
\* source value: the same kind at every level, the same keys, equal leaves
RECURSIVE DeepEqual(_, _, _)
DeepEqual(table, read, v) ==
    IF IsComposite(v)
    THEN /\ read.t = (IF IsArray(v) THEN "array-handle" ELSE "null-handle")
         /\ LET listed == entries(table, HandleOf(read))
                source == ObjectEntries(v)
            IN  /\ Len(listed) = Len(source)
                /\ {SegmentName(listed[i].k) : i \in DOMAIN listed}
                       = {source[j].k : j \in DOMAIN source}
                /\ \A j \in DOMAIN source :
                       DeepEqual(table, get(table, HandleOf(read), source[j].k),
                                 source[j].v)
    ELSE read = v

(***************************************************************************)
(* C4.  After set(h, k, T) for a tree T of supported scalars, arrays and    *)
(* plain records, reading the subtree at k back by recursive enumeration    *)
(* gives a tree structurally equal to T.                                    *)
(***************************************************************************)
C4_CompositeReadsBack ==
    (/\ last.op = "set" /\ last.err = "none"
     /\ ~OnLength(last)
     /\ Supported(last.v) /\ IsComposite(last.v))
    => DeepEqual(rows, get(rows, last.h, last.k), last.v)

(***************************************************************************)
(* C5.  After set(h, k, v) for a scalar v that is null, a boolean, a        *)
(* number, a string of legal code units, a bigint or a timestamp,           *)
(* get(h, k) returns a value equal to v.                                    *)
(***************************************************************************)
C5_ScalarReadsBack ==
    (/\ last.op = "set"
     /\ ~OnLength(last)
     /\ last.v.t \in {"null", "boolean", "number", "string", "bigint", "date"}
     /\ Supported(last.v))
    => get(rows, last.h, last.k) = last.v

(***************************************************************************)
(* C6.  After set(h, k, r) for a regular expression r with source s and     *)
(* flags f, get(h, k) returns a regular expression with source s and flags  *)
(* f.                                                                       *)
(***************************************************************************)
C6_RegExpReadsBack ==
    (/\ last.op = "set" /\ last.err = "none"
     /\ ~OnLength(last)
     /\ last.v.t = "regexp")
    => LET read == get(rows, last.h, last.k)
       IN  read.t = "regexp" /\ read.a = last.v.a /\ read.b = last.v.b

(***************************************************************************)
(* C7.  After delete(h, k) no row remains whose path equals or extends      *)
(* P ++ [key(k)], and get(h, k) returns absent.                             *)
(***************************************************************************)
C7_DeleteEmptiesSubtree ==
    (last.op = "delete" /\ ~OnLength(last))
    => /\ Subtree(rows, TargetPath(last.h, last.k)) = {}
       /\ get(rows, last.h, last.k) = Undefined
       /\ ~has(rows, last.h, last.k)

(***************************************************************************)
(* C8.  A top-level set of a value that contains itself, directly or        *)
(* through nested records and arrays, fails with the Cycle error and leaves *)
(* the table as it was before the call.                                     *)
(***************************************************************************)
C8_CycleFailsAndKeepsTable ==
    [][(WriteStep /\ last'.op = "set" /\ ~OnLength(last') /\ Cyclic(last'.v))
       => last'.err = "Cycle" /\ rows' = rows]_vars

\* the prefixes at which an array marker is stored
ArrayPrefixes(table) ==
    {decodePath(r.path) : r \in {q \in table : q.value = encodeComplex("array")}}

\* the rows at or below the numeric children of A
IndexRows(table, A) ==
    {r \in table : \E p \in {decodePath(r.path)} :
                       /\ Len(p) > Len(A)
                       /\ IsPrefixOf(A, p)
                       /\ p[Len(A) + 1].num}

IndexOf(r, A) == decodePath(r.path)[Len(A) + 1].n

\* the indices of the direct numeric children of A
ChildIndices(table, A) ==
    {p[Len(A) + 1].n :
        p \in {q \in {decodePath(r.path) : r \in table} :
                  /\ Len(q) = Len(A) + 1
                  /\ IsPrefixOf(A, q)
                  /\ q[Len(A) + 1].num}}

IsDense(indices) == indices = 0 .. (Cardinality(indices) - 1)

Dense(table, A) == IsDense(ChildIndices(table, A))

\* what the length of an array handle on A reads as
LengthOf(table, A) ==
    LengthValue(get(table, Handle("array", A), K_length).a)

(***************************************************************************)
(* C9.  For an array stored at prefix A whose direct children are exactly   *)
(* the indices 0..n-1, scalars or composites with descendants, the length   *)
(* of the array handle is n; it is 0 for an array with no children.         *)
(***************************************************************************)
C9_LengthOfDenseArray ==
    \A A \in ArrayPrefixes(rows) :
        \A children \in {ChildIndices(rows, A)} :
            IsDense(children)
            => get(rows, Handle("array", A), K_length) = Num(Cardinality(children))

\* an array of three children, one of them an array with a child of its own
C9_Witness ==
    \E A \in ArrayPrefixes(rows) :
        /\ ChildIndices(rows, A) = 0 .. 2
        /\ \E B \in ArrayPrefixes(rows) :
              /\ Len(B) = Len(A) + 1 /\ IsPrefixOf(A, B)
              /\ ChildIndices(rows, B) # {}
        /\ LengthOf(rows, A) = 3

(***************************************************************************)
(* C10.  As claimed: assigning length = m to an array handle of length n    *)
(* removes exactly the children at indices >= m with their descendants and  *)
(* changes no other row; for m < n the length becomes m and the indices in  *)
(* [m, n) read as absent; for m >= n the table is unchanged and the length  *)
(* stays n.                                                                 *)
(***************************************************************************)
C10_TruncationRemovesOnlyTail ==
    [][(/\ WriteStep /\ last'.op = "set" /\ OnLength(last')
        /\ ValidLength(ToNumber(last'.v)))
       => LET A == last'.h.prefix
              m == LengthValue(ToNumber(last'.v))
              n == LengthOf(rows, A)
          IN  /\ last'.err = "none"
              /\ rows' = rows \ {r \in IndexRows(rows, A) : IndexOf(r, A) >= m}
              /\ m < n => /\ LengthOf(rows', A) = m
                          /\ \A i \in ChildIndices(rows', A) : i < m
              /\ m >= n => rows' = rows /\ LengthOf(rows', A) = n]_vars

(***************************************************************************)
(* C10, amended.  Assigning length = m, a safe integer in [0, 2^32 - 1), to *)
(* an array handle on prefix A removes exactly the rows at or below the     *)
(* indices >= m of A and the rows at or below the string key "length" of A, *)
(* and changes no other row; it creates no row.  Afterwards every index    *)
(* >= m reads as absent and the indices below m are those from before.  If  *)
(* the children of A were exactly 0..n-1, the length becomes m for m < n    *)
(* and stays n for m >= n.                                                  *)
(***************************************************************************)
C10_TruncationRemovesTailAndLengthKey ==
    [][(/\ WriteStep /\ last'.op = "set" /\ OnLength(last')
        /\ ValidLength(ToNumber(last'.v)))
       => LET A == last'.h.prefix
              m == LengthValue(ToNumber(last'.v))
              n == LengthOf(rows, A)
          IN  /\ last'.err = "none"
              /\ rows' = rows \ ({r \in IndexRows(rows, A) : IndexOf(r, A) >= m}
                                  \cup Subtree(rows, Append(A, StrSeg(K_length))))
              /\ ChildIndices(rows', A) = {i \in ChildIndices(rows, A) : i < m}
              /\ \A i \in ChildIndices(rows, A) :
                    i >= m => ~has(rows', last'.h, DecimalDigits(i))
              /\ Dense(rows, A)
                    => LengthOf(rows', A) = (IF m < n THEN m ELSE n)]_vars

\* a truncation of a stored array that removed a child and left two
C10_Witness ==
    /\ last.op = "set" /\ OnLength(last) /\ last.err = "none"
    /\ last.changes > 0
    /\ last.h.prefix \in ArrayPrefixes(rows)
    /\ ChildIndices(rows, last.h.prefix) = {0, 1}
    /\ LengthOf(rows, last.h.prefix) = 2

(***************************************************************************)
(* C11.  Appending to a stored array whose children are exactly 0..n-1:     *)
(* after set(a, n, v) for a supported v, followed by the assignment         *)
(* length = n + 1 that push performs, length(a) = n + 1, get(a, n) reads as *)
(* v, and get(a, i) is what it was for every i < n.                         *)
(***************************************************************************)
C11_AppendExtendsArray ==
    [][/\ (/\ WriteStep /\ last'.op = "set" /\ last'.h.proto = "array"
           /\ last'.h.prefix \in ArrayPrefixes(rows)
           /\ Dense(rows, last'.h.prefix)
           /\ last'.k = DecimalDigits(Cardinality(ChildIndices(rows, last'.h.prefix)))
           /\ Supported(last'.v))
          => \A i \in ChildIndices(rows, last'.h.prefix) :
                 get(rows', last'.h, DecimalDigits(i))
                     = get(rows, last'.h, DecimalDigits(i))
       /\ (/\ WriteStep /\ last.op = "set" /\ last.h.proto = "array"
           /\ Supported(last.v)
           /\ last'.op = "set" /\ last'.h = last.h /\ OnLength(last')
           /\ last.h.prefix \in ArrayPrefixes(rows)
           /\ \E n \in 0 .. 3 :
                 /\ last.k = DecimalDigits(n)
                 /\ ChildIndices(rows, last.h.prefix) \ {n} = 0 .. (n - 1)
                 /\ last'.v = Num(n + 1))
          => /\ last'.err = "none"
             /\ LengthOf(rows', last.h.prefix) = LengthValue(last'.v.a)
             /\ DeepEqual(rows', get(rows', last.h, last.k), last.v)
             /\ \A i \in ChildIndices(rows, last.h.prefix) :
                    DecimalDigits(i) # last.k
                    => get(rows', last.h, DecimalDigits(i))
                           = get(rows, last.h, DecimalDigits(i))]_vars

(***************************************************************************)
(* C12.  For every handle h with prefix P, entries(h) yields one entry for  *)
(* each stored row whose path is P extended by exactly one segment, and no  *)
(* entry for any other row.                                                 *)
(***************************************************************************)
C12_EntriesAreDirectChildren ==
    \A h \in handles :
        LET listed == entries(rows, h)
            direct == {q \in {decodePath(r.path) : r \in rows} :
                          Len(q) = Len(h.prefix) + 1 /\ IsPrefixOf(h.prefix, q)}
        IN  /\ Len(listed) = Cardinality(direct)
            /\ {listed[i].k : i \in DOMAIN listed} = {Last(q) : q \in direct}

\* the order of segments: numbers before strings, numbers by value, strings
\* by their code units, a string before the strings it is a proper prefix of
SegLess(x, y) ==
    IF x.num /\ y.num THEN x.n < y.n
    ELSE IF x.num # y.num THEN x.num
    ELSE BytesLess(x.s, y.s)

\* the same, but a string ranks after the strings it is a proper prefix of:
\* the end of a string counts as a code unit above every legal one
SegLessEndHigh(x, y) ==
    IF x.num /\ y.num THEN x.n < y.n
    ELSE IF x.num # y.num THEN x.num
    ELSE BytesLess(Append(x.s, TERMINATOR), Append(y.s, TERMINATOR))

\* the lexicographic order of paths, a path before its extensions
RECURSIVE PathLess(_, _)
PathLess(path, than) ==
    IF than = <<>> THEN FALSE
    ELSE IF path = <<>> THEN TRUE
    ELSE IF path[1] = than[1] THEN PathLess(Tail(path), Tail(than))
    ELSE SegLess(path[1], than[1])

RECURSIVE PathLessEndHigh(_, _)
PathLessEndHigh(path, than) ==
    IF than = <<>> THEN FALSE
    ELSE IF path = <<>> THEN TRUE
    ELSE IF path[1] = than[1] THEN PathLessEndHigh(Tail(path), Tail(than))
    ELSE SegLessEndHigh(path[1], than[1])

(***************************************************************************)
(* C13.  As claimed: for two distinct legal paths, encodePath(p1) is        *)
(* byte-wise less than encodePath(p2) if and only if p1 < p2 in the segment *)
(* order, strings by their code-unit sequence, so that "a" sorts before     *)
(* "ab".                                                                    *)
(***************************************************************************)
C13_EncodingKeepsPathOrder ==
    (sample.stage \in {"encoded", "ranged"} /\ sample.p1 # sample.p2)
    => (BytesLess(sample.lower, sample.other) <=> PathLess(sample.p1, sample.p2))

(***************************************************************************)
(* C13, amended.  For two distinct legal paths, encodePath(p1) is byte-wise *)
(* less than encodePath(p2) if and only if p1 < p2 in the lexicographic     *)
(* order of segments, a path before its extensions, number segments before  *)
(* string segments, numbers by value, and strings by their code units with  *)
(* the end of a string ranking above every legal code unit: a string sorts  *)
(* after every longer string it is a prefix of, "ab" before "a".            *)
(***************************************************************************)
C13_EncodingKeepsEndHighOrder ==
    (sample.stage \in {"encoded", "ranged"} /\ sample.p1 # sample.p2)
    => (BytesLess(sample.lower, sample.other)
            <=> PathLessEndHigh(sample.p1, sample.p2))

\* "ab" encoded below "a", and 2 below 256
C13_Witness ==
    /\ sample.stage = "encoded"
    /\ sample.p1 = <<StrSeg(K_ab), NumSeg(2)>>
    /\ sample.p2 = <<StrSeg(K_a), NumSeg(256)>>
    /\ BytesLess(sample.lower, sample.other)

(***************************************************************************)
(* C15.  For every legal path P, the empty one included, the interval       *)
(* [encodePath(P), increment(encodePath(P))) contains the encoded path of   *)
(* every path that equals or extends P.                                     *)
(***************************************************************************)
C15_RangeHoldsSubtree ==
    (sample.stage = "ranged" /\ IsPrefixOf(sample.p1, sample.p2))
    => InRange(sample.other, sample.lower, sample.upper)

(***************************************************************************)
(* C16.  For every legal non-empty path P, the interval                     *)
(* [encodePath(P), increment(encodePath(P))) contains the encoded path of   *)
(* no path outside the subtree of P: what is in the interval has P as a     *)
(* segment-wise prefix.                                                     *)
(***************************************************************************)
C16_RangeHoldsOnlySubtree ==
    (/\ sample.stage = "ranged"
     /\ sample.p1 # <<>>
     /\ InRange(sample.other, sample.lower, sample.upper))
    => IsPrefixOf(sample.p1, sample.p2)

\* the range of "a" holds a child of "a", and "ab" was tried against it too
C16_Witness ==
    /\ sample.stage = "ranged"
    /\ sample.p1 = <<StrSeg(K_a)>>
    /\ sample.p2 = <<StrSeg(K_a), NumSeg(1)>>
    /\ InRange(sample.other, sample.lower, sample.upper)

\* the kind of a source value and the kind of what a read returned
KindWritten(v) ==
    IF IsArray(v) THEN "array" ELSE IF IsPlainRecord(v) THEN "record" ELSE "scalar"

KindRead(read) ==
    CASE read.t = "array-handle" -> "array"
      [] read.t = "null-handle" -> "record"
      [] read.t = "undefined" -> "absent"
      [] OTHER -> "scalar"

(***************************************************************************)
(* C14.  The kind read equals the kind written: after set(h, k, v),         *)
(* get(h, k) is an array handle when v is an array, a record handle with    *)
(* null prototype when v is a plain record and a scalar when v is a scalar; *)
(* the table root is a record handle with null prototype.                   *)
(***************************************************************************)
C14_KindReadIsKindWritten ==
    /\ RootHandle.proto = "null"
    /\ (last.op = "set" /\ ~OnLength(last) /\ Supported(last.v))
       => KindRead(get(rows, last.h, last.k)) = KindWritten(last.v)

\* every row below the root has, at each proper prefix of its path, the marker
\* of a record when the next segment is a string, of an array when a number
PrefixClosed(table) ==
    \A path \in {decodePath(r.path) : r \in table} :
        \A i \in 1 .. (Len(path) - 1) :
            [path |-> encodePath(SubSeq(path, 1, i)),
             value |-> encodeComplex(IF path[i + 1].num THEN "array" ELSE "record")]
                \in table

(***************************************************************************)
(* C17.  Prefix-closedness holds in every reachable table state, after any  *)
(* sequence of set, delete and length assignments through the root handle   *)
(* and the child handles obtained earlier.                                  *)
(***************************************************************************)
C17_TableIsPrefixClosed == PrefixClosed(rows)

(***************************************************************************)
(* C18.  Array density holds in every reachable table state: the direct     *)
(* children of every stored array are exactly the indices 0..len-1.         *)
(***************************************************************************)
C18_ArraysAreDense ==
    \A A \in ArrayPrefixes(rows) :
        /\ Dense(rows, A)
        /\ LengthOf(rows, A) = Cardinality(ChildIndices(rows, A))

(***************************************************************************)
(* C19.  During a top-level set of supported values every insert finds its  *)
(* path free: the write never fails with a primary-key conflict of the      *)
(* backing store, whether or not the key already held a value.              *)
(***************************************************************************)
C19_InsertsNeverConflict ==
    [][(WriteStep /\ last'.op = "set" /\ Supported(last'.v))
       => last'.thrown # "Backend"]_vars

(***************************************************************************)
(* C20.  A top-level set fails with the Cycle error only when the source    *)
(* value reaches itself through its own properties; a source that           *)
(* references one composite from two places without a cycle is written, as  *)
(* two independent subtrees.                                                *)
(***************************************************************************)
C20_CycleOnlyForCyclicSource ==
    [][(WriteStep /\ last'.op = "set" /\ ~OnLength(last'))
       => /\ last'.thrown = "Cycle" => Cyclic(last'.v)
          /\ (last'.err = "none" /\ Supported(last'.v))
                => Subtree(rows', TargetPath(last'.h, last'.k))
                       = Flatten(TargetPath(last'.h, last'.k), last'.v)]_vars

\* the property names the caller of the workload uses
WorkloadKeys == Workloads[workload].keys \cup Workloads[workload].inner

(***************************************************************************)
(* C21.  Distinct keys are independent: set(h, k1, v) or delete(h, k1) does *)
(* not change get(h, k2) or has(h, k2) for a key string k2 other than k1    *)
(* (the "length" of an array handle aside), and normalization maps k1 and   *)
(* k2 to different segments.                                                *)
(***************************************************************************)
C21_DistinctKeysAreIndependent ==
    [][(WriteStep /\ last'.op \in {"set", "delete"} /\ ~OnLength(last'))
       => \A k2 \in WorkloadKeys \ {last'.k} :
              ~(last'.h.proto = "array" /\ k2 = K_length)
              => /\ key(k2) # key(last'.k)
                 /\ get(rows', last'.h, k2) = get(rows, last'.h, k2)
                 /\ has(rows', last'.h, k2) = has(rows, last'.h, k2)]_vars

\* the rows of the subtree at `from`, moved to `to`
Rebase(table, from, to) ==
    {[path |-> encodePath(to \o SubSeq(decodePath(r.path), Len(from) + 1,
                                       Len(decodePath(r.path)))),
      value |-> r.value] : r \in Subtree(table, from)}

\* the rows of the data model for a value written at `path` when the handles
\* in it stand for what `table` holds at their prefixes
RECURSIVE FlattenWith(_, _, _)
FlattenWith(table, path, v) ==
    IF IsHandleValue(v) THEN Rebase(table, v.p, path)
    ELSE IF IsComposite(v)
    THEN {[path |-> encodePath(path),
           value |-> encodeComplex(IF IsArray(v) THEN "array" ELSE "record")]}
         \cup UNION {FlattenWith(table, Append(path, key(ObjectEntries(v)[i].k)),
                                 ObjectEntries(v)[i].v) :
                         i \in DOMAIN ObjectEntries(v)}
    ELSE {[path |-> encodePath(path), value |-> encodeScalar(v)]}

\* the handle is what a read at its prefix returns from `table`
Live(table, handle) ==
    \E r \in SelectOne(table, encodePath(handle.p)) :
        instanciate(r.value, handle.p) = handle

\* the value is or holds handles, all of them live and inside the subtree at
\* `path`
ReadsItsTarget(table, path, v) ==
    /\ HandlesIn(v, path) # {}
    /\ \A x \in HandlesIn(v, path) :
           IsPrefixOf(path, x.handle.p) /\ Live(table, x.handle)

(***************************************************************************)
(* C22.  When the value of set(h, k, v) is, or holds, handles into the      *)
(* subtree stored at k (get(h, k) itself, or a shallow copy of it with a    *)
(* field added), the subtree at k afterwards holds the contents those       *)
(* handles had before the write began.                                      *)
(***************************************************************************)
C22_WriteReadsWhatItReplaces ==
    [][(WriteStep /\ last'.op = "set"
          /\ ReadsItsTarget(rows, TargetPath(last'.h, last'.k), last'.v))
       => Subtree(rows', TargetPath(last'.h, last'.k))
              = FlattenWith(rows, TargetPath(last'.h, last'.k), last'.v)]_vars

(***************************************************************************)
(* C23.  set(h, k, v) and delete(h, k), for k other than the "length" of an *)
(* array handle, leave unchanged every row whose path neither equals nor    *)
(* extends P ++ [normalize(k)], whether the operation succeeds or fails.    *)
(***************************************************************************)
C23_WriteKeepsRowsOutsideTarget ==
    [][(WriteStep /\ last'.op \in {"set", "delete"} /\ ~OnLength(last'))
       => \A r \in (rows \ rows') \cup (rows' \ rows) :
              IsPrefixOf(TargetPath(last'.h, last'.k), decodePath(r.path))]_vars

\* a write has removed rows of its target while other rows are stored
C23_Witness ==
    /\ last.op \in {"set", "delete"} /\ ~OnLength(last)
    /\ last.err = "none"
    /\ last.changes > 0
    /\ rows \ Subtree(rows, TargetPath(last.h, last.k)) # {}

\* the write of v through a handle without a guard, on an empty table, fails
\* with Cycle
CycleOnFirstWrite(v) ==
    set([StartState(FALSE, {}, FALSE) EXCEPT !.rows = {}], RootHandle, K_a, v).thrown
        = "Cycle"

(***************************************************************************)
(* C24.  The cycle guard does not outlive a top-level write: after a        *)
(* top-level set returns or throws no handle carries a guard, so every      *)
(* top-level set opens its own transaction and deletes its own range, and   *)
(* an object a previous write visited gives Cycle only if it would on a     *)
(* first write.                                                             *)
(***************************************************************************)
C24_GuardEndsWithWrite ==
    [][(WriteStep /\ last'.op = "set")
       => /\ \A h \in handles' : ~h.cycles
          /\ (last'.v # Undefined /\ ValidPath(TargetPath(last'.h, last'.k)))
                => /\ Len(last'.log) >= 2
                   /\ last'.log[1] = "BEGIN"
                   /\ last'.log[2] = "DELETE"
          /\ last'.thrown = "Cycle" => CycleOnFirstWrite(last'.v)]_vars

\* the same source object has been written twice through the root handle
C24_Witness ==
    /\ last.op = "set" /\ last.h = RootHandle /\ last.v = Obj(1)
    /\ last.err = "none"
    /\ Flatten(<<StrSeg(K_a)>>, Obj(1)) \subseteq rows
    /\ Flatten(<<NumSeg(255)>>, Obj(1)) \subseteq rows

\* the value is, or holds at some depth, a function, a symbol or an instance
\* of a class
RECURSIVE HoldsUnsupportedIn(_, _)
HoldsUnsupportedIn(v, seen) ==
    IF IsComposite(v)
    THEN /\ v.a[1] \notin seen
         /\ \E i \in DOMAIN ObjectEntries(v) :
                HoldsUnsupportedIn(ObjectEntries(v)[i].v, seen \cup {v.a[1]})
    ELSE \/ v.t \in {"function", "symbol"}
         \/ IsObject(v) /\ SourceHeap[v.a[1]].kind = "instance"

HoldsUnsupported(v) == HoldsUnsupportedIn(v, {})

(***************************************************************************)
(* C25.  A top-level set(h, k, v) in which v, or a value nested in v, is a  *)
(* function, a symbol or an instance of a class fails with the              *)
(* unsupported-type error, and the value stored at k before, with all its   *)
(* descendants, is still present afterwards.                                *)
(***************************************************************************)
C25_UnsupportedFailsAndKeepsValue ==
    [][(WriteStep /\ last'.op = "set" /\ ~OnLength(last')
          /\ HoldsUnsupported(last'.v))
       => /\ last'.thrown = "Unsupported"
          /\ Subtree(rows', TargetPath(last'.h, last'.k))
                 = Subtree(rows, TargetPath(last'.h, last'.k))]_vars

(***************************************************************************)
(* C26.  The row at a composite's own path holds the single byte 0xFF for a *)
(* record and 0xFE for an array, and a row holding 0xFF reads as a record   *)
(* and one holding 0xFE as an array, so that every version of the code      *)
(* reads a table with the kinds another version wrote.                      *)
(***************************************************************************)
C26_MarkersAreFFAndFE ==
    (last.op = "set" /\ last.err = "none" /\ ~OnLength(last)
       /\ IsComposite(last.v))
    => /\ \A r \in SelectOne(rows, encodePath(TargetPath(last.h, last.k))) :
              r.value = <<IF IsArray(last.v) THEN OBJECT_TAG_ARRAY
                          ELSE OBJECT_TAG_RECORD>>
       /\ datatype(<<OBJECT_TAG_RECORD>>) = "record"
       /\ datatype(<<OBJECT_TAG_ARRAY>>) = "array"

\* the last segments of the rows one segment below `path`
ChildSegments(table, path) ==
    {Last(decodePath(r.path)) :
        r \in {q \in Subtree(table, path) : Len(decodePath(q.path)) = Len(path) + 1}}

\* numbers before strings, numbers by value, strings by their encoded bytes
SegBefore(x, y) ==
    IF x.num /\ y.num THEN x.n < y.n
    ELSE IF x.num # y.num THEN x.num
    ELSE BytesLess(encodePath(<<x>>), encodePath(<<y>>))

\* the keys are those of the direct children of the handle, in ascending
\* order, after "length" when the handle is an array
EnumeratesChildren(table, h, keys) ==
    LET body == IF h.proto = "array" /\ keys # <<>> THEN Tail(keys) ELSE keys
    IN  /\ h.proto = "array" => keys # <<>> /\ keys[1] = K_length
        /\ {key(body[i]) : i \in DOMAIN body} = ChildSegments(table, h.prefix)
        /\ \A i \in DOMAIN body : \A j \in DOMAIN body :
               i < j => SegBefore(key(body[i]), key(body[j]))

(***************************************************************************)
(* C27.  Key enumeration of a handle yields its direct children in          *)
(* ascending encoded-path order, the number keys in increasing order first  *)
(* and then the string keys, whatever the order they were written in; an    *)
(* array handle reports "length" before the numeric keys.                   *)
(***************************************************************************)
C27_KeysAreChildrenInOrder ==
    \A h \in handles : EnumeratesChildren(rows, h, ownKeys(rows, h))

\* the keys has and get are asked for: those of the workload and a method name
\* of arrays
ProbeKeys == WorkloadKeys \cup {K_at}

RowExists(table, h, k) == SelectOne(table, encodePath(TargetPath(h, k))) # {}

(***************************************************************************)
(* C28.  For every handle h (record, array or root) with prefix P and every *)
(* key k, has(h, k) is true if and only if a row exists at the exact path   *)
(* P ++ [normalize(k)], and get(h, k) is absent exactly when has(h, k) is   *)
(* false.                                                                   *)
(***************************************************************************)
C28_HasIffRowExists ==
    \A h \in handles : \A k \in ProbeKeys :
        ValidPath(TargetPath(h, k))
        => /\ has(rows, h, k) <=> RowExists(rows, h, k)
           /\ (get(rows, h, k) = Undefined) <=> ~has(rows, h, k)

(***************************************************************************)
(* C28, amended.  The same, except on an array handle for "length" and for  *)
(* the property names of Array.prototype: for those has(h, k) is true       *)
(* whether or not a row exists.                                             *)
(***************************************************************************)
C28_HasIffRowExistsOffArrayNames ==
    \A h \in handles : \A k \in ProbeKeys :
        ValidPath(TargetPath(h, k))
        => \A found \in {has(rows, h, k)} :
               IF h.proto = "array" /\ k \in ArrayPrototypeNames
               THEN found /\ get(rows, h, k) # Undefined
               ELSE /\ found <=> RowExists(rows, h, k)
                    /\ (get(rows, h, k) = Undefined) <=> ~found

\* the caller holds an array handle with an element at 0 and none at 1
C28_Witness ==
    \E h \in handles :
        /\ h.proto = "array"
        /\ has(rows, h, K_0) /\ RowExists(rows, h, K_0)
        /\ ~has(rows, h, K_1) /\ ~RowExists(rows, h, K_1)
        /\ has(rows, h, K_at) /\ ~RowExists(rows, h, K_at)

(***************************************************************************)
(* C29.  delete(h, k) returns true if and only if, immediately before the   *)
(* call, at least one row existed at or below P ++ [normalize(k)]; delete   *)
(* of the "length" of an array handle fails and removes no row.             *)
(***************************************************************************)
C29_DeleteTellsWhetherRowsExisted ==
    [][(WriteStep /\ last'.op = "delete")
       => IF OnLength(last')
          THEN ~last'.ret /\ rows' = rows
          ELSE ValidPath(TargetPath(last'.h, last'.k))
               => (last'.ret <=> Subtree(rows, TargetPath(last'.h, last'.k)) # {})]_vars

=============================================================================
